---- MODULE Spec2Model ----
(***************************************************************************)
(* Model of the requests-based crawler of bid3-manuals-scraper             *)
(* (src/src/scraper.py): scope policy, local path mappers, resource        *)
(* fetcher, link and asset rewriter, directory crawler, batch orchestrator.*)
(*                                                                         *)
(* Text.  A Python str is modelled as a sequence of tokens.  A token is an *)
(* indivisible run of characters ("https:", "/", "pages", ".html", ...);   *)
(* every string operation of the code (startswith, endswith, rsplit,       *)
(* replace, re.sub, pathlib's parsing) cuts strings only at token          *)
(* boundaries of the alphabet used here, so the token-level operators      *)
(* below compute what the character-level code computes.                   *)
(*                                                                         *)
(* Paths.  A pathlib.Path is an absolute POSIX path: the sequence of its   *)
(* components below the filesystem root, each component a token sequence.  *)
(***************************************************************************)
EXTENDS Integers, Sequences, FiniteSets, TLC

\* ------------------------------------------------------------------------
\* Module constants of scraper.py
\* ------------------------------------------------------------------------
BASE_PATH == << <<"BASE">> >>
HTML_DIR == BASE_PATH \o << <<"html">> >>
\* DOMAIN of scraper.py (DOMAIN is a reserved word of TLA+)
SITE_DOMAIN == <<"https:", "/", "/", "bid3.afry", ".com">>
PAGES_PREFIX == SITE_DOMAIN \o <<"/", "pages", "/">>

\* ------------------------------------------------------------------------
\* str operations
\* ------------------------------------------------------------------------
\* F(x) with x evaluated once: an operator's argument is otherwise evaluated
\* anew at each of its uses in the operator's body
Strict(F(_), x) == CHOOSE r \in { F(v) : v \in {x} } : TRUE

StartsWith(s, p) == Len(p) <= Len(s) /\ SubSeq(s, 1, Len(p)) = p

EndsWith(s, t) == Len(t) <= Len(s) /\ SubSeq(s, Len(s) - Len(t) + 1, Len(s)) = t

\* position of the first / last occurrence of token t in s, 0 when absent
FirstIndex(str, t) ==
  Strict(LAMBDA s :
    IF \E i \in 1..Len(s) : s[i] = t
    THEN CHOOSE i \in 1..Len(s) : s[i] = t /\ \A j \in 1..(i - 1) : s[j] # t
    ELSE 0, str)

LastIndex(str, t) ==
  Strict(LAMBDA s :
    IF \E i \in 1..Len(s) : s[i] = t
    THEN CHOOSE i \in 1..Len(s) : s[i] = t /\ \A j \in (i + 1)..Len(s) : s[j] # t
    ELSE 0, str)

\* s.rsplit("/", 1)[0] and s.rsplit("/", 1)[-1]
RSplitHead(str) ==
  Strict(LAMBDA s :
    IF LastIndex(s, "/") = 0 THEN s ELSE SubSeq(s, 1, LastIndex(s, "/") - 1), str)

RSplitTail(str) ==
  Strict(LAMBDA s :
    IF LastIndex(s, "/") = 0 THEN s ELSE SubSeq(s, LastIndex(s, "/") + 1, Len(s)), str)

\* name.replace('.html', '')
RemoveHtml(s) == SelectSeq(s, LAMBDA t : t # ".html")

\* s.split("/")
RECURSIVE SplitSlash(_)
SplitSlash(str) ==
  Strict(LAMBDA s :
    IF FirstIndex(s, "/") = 0 THEN << s >>
    ELSE << SubSeq(s, 1, FirstIndex(s, "/") - 1) >>
           \o SplitSlash(SubSeq(s, FirstIndex(s, "/") + 1, Len(s))), str)

\* the regular expression prefix ^https?:// matches s
HasScheme(s) ==
  /\ Len(s) >= 3
  /\ s[1] \in {"http:", "https:"}
  /\ s[2] = "/"
  /\ s[3] = "/"

\* index of the "/" that ends the [^/]+ run after the scheme, 0 when the run
\* is empty or is not followed by "/"
HostSlash(str) ==
  Strict(LAMBDA s :
    IF ~HasScheme(s) THEN 0
    ELSE IF FirstIndex(SubSeq(s, 4, Len(s)), "/") <= 1 THEN 0
    ELSE FirstIndex(SubSeq(s, 4, Len(s)), "/") + 3, str)

\* re.sub(r"^https?://[^/]+/pages/", "", s)
StripPagesPrefix(str) ==
  Strict(LAMBDA s :
    IF HostSlash(s) # 0
       /\ StartsWith(SubSeq(s, HostSlash(s), Len(s)), <<"/", "pages", "/">>)
    THEN SubSeq(s, HostSlash(s) + 3, Len(s))
    ELSE s, str)

\* re.sub(r"^https?://[^/]+/", "", s)
StripHostPrefix(str) ==
  Strict(LAMBDA s :
    IF HostSlash(s) # 0 THEN SubSeq(s, HostSlash(s) + 1, Len(s)) ELSE s, str)

\* ------------------------------------------------------------------------
\* pathlib
\* ------------------------------------------------------------------------
\* components of a path string: empty and "." components are dropped
Parts(s) == SelectSeq(SplitSlash(s), LAMBDA g : g # <<>> /\ g # <<".">>)

\* dir / s : a string with a leading "/" replaces dir altogether
PathJoin(dir, str) ==
  Strict(LAMBDA s :
    IF Len(s) > 0 /\ s[1] = "/" THEN Parts(s) ELSE dir \o Parts(s), str)

Parent(path) ==
  Strict(LAMBDA p : IF p = <<>> THEN p ELSE SubSeq(p, 1, Len(p) - 1), path)

\* Path.resolve(): ".." components climb, never above the filesystem root
RECURSIVE ResolveFrom(_, _)
ResolveFrom(done, path) ==
  Strict(LAMBDA acc : Strict(LAMBDA p :
    IF p = <<>> THEN acc
    ELSE IF Head(p) = <<"..">> THEN ResolveFrom(Parent(acc), Tail(p))
    ELSE ResolveFrom(Append(acc, Head(p)), Tail(p)), path), done)

Resolve(p) == ResolveFrom(<<>>, p)

\* the file named by p is inside directory dir
IsUnder(p, dir) == Strict(LAMBDA r : StartsWith(r, dir), Resolve(p))

\* (html_path.parent / href).resolve(): the path validate_local_site checks
\* for an href found in the page at path
LinkTarget(path, href) == Resolve(PathJoin(Parent(path), href))

\* ------------------------------------------------------------------------
\* Scope policy and local path mappers
\* ------------------------------------------------------------------------

allowed_scopeAnyHost(url) == StripPagesPrefix(url) # url

allowed_scope(url) == StartsWith(url, PAGES_PREFIX)

\* result of sanitize_local_path: raised = TRUE models the ValueError
sanitize_local_path(url) ==
  Strict(LAMBDA v :
    IF ~allowed_scope(v)
    THEN [raised |-> TRUE, path |-> <<>>]
    ELSE [raised |-> FALSE, path |-> PathJoin(HTML_DIR, StripPagesPrefix(v))], url)


\* urlsplit(url).query: the text between the first "?" and the fragment
UrlQuery(url) ==
  IF FirstIndex(url, "?") = 0 THEN <<>>
  ELSE Strict(LAMBDA rest :
         IF FirstIndex(rest, "#") = 0 THEN rest
         ELSE SubSeq(rest, 1, FirstIndex(rest, "#") - 1),
         SubSeq(url, FirstIndex(url, "?") + 1, Len(url)))

\* tokens that begin with the character "." and hold no other "."
DotTokens == {".html", ".css", ".js", ".png", ".com", ".evil", ".min"}

\* PurePath.suffix and PurePath.stem of a file name: the suffix starts at the
\* last "." of the name unless that "." is the name's first character
SuffixStart(name) ==
  IF \E i \in 2..Len(name) : name[i] \in DotTokens
  THEN CHOOSE i \in 2..Len(name) :
         name[i] \in DotTokens /\ \A j \in (i + 1)..Len(name) : name[j] \notin DotTokens
  ELSE Len(name) + 1

PathStem(name) == SubSeq(name, 1, SuffixStart(name) - 1)

PathSuffix(name) == SubSeq(name, SuffixStart(name), Len(name))

\* query strings of the model
Q_v1 == <<"v=1">>
Q_v2 == <<"v=2">>
Q_v1slash == <<"v=1", "/">>
\* v=//x/x//x/x//x/x//x/x//x//x/x//x/x/x/x//y
Q_collideA ==
  <<
     "v=", "/", "/", "x", "/", "x", "/", "/", "x", "/", "x", "/",
     "/", "x", "/", "x", "/", "/", "x", "/", "x", "/", "/", "x",
     "/", "/", "x", "/", "x", "/", "/", "x", "/", "x", "/", "x",
     "/", "x", "/", "/", "y" >>
\* v=//x//x/x/x//x/x//x/x//x/x/x/x//x//x/x//y
Q_collideB ==
  <<
     "v=", "/", "/", "x", "/", "/", "x", "/", "x", "/", "x", "/",
     "/", "x", "/", "x", "/", "/", "x", "/", "x", "/", "/", "x",
     "/", "x", "/", "x", "/", "x", "/", "/", "x", "/", "/", "x",
     "/", "x", "/", "/", "y" >>

\* hashlib.sha1(query).hexdigest()[:8]: the first 32 bits of the SHA-1
\* digest, tabulated for the query strings of the model; any other query
\* keeps a symbolic digest, the token run "sha1:" q
Sha1Hex8(q) ==
  CASE q = Q_v1 -> <<"1d365e2d">>
    [] q = Q_v2 -> <<"f67bbdbf">>
    [] q = Q_v1slash -> <<"2a7c6c24">>
    [] q = Q_collideA -> <<"beeb1b3f">>
    [] q = Q_collideB -> <<"beeb1b3f">>
    [] OTHER -> <<"sha1:">> \o q

\* _local_for_url(url)
_local_for_url(url) ==
  Strict(LAMBDA base : Strict(LAMBDA query :
    IF query # <<>> /\ base # <<>>
    THEN Append(Parent(base),
                PathStem(base[Len(base)]) \o <<"-">> \o Sha1Hex8(query)
                  \o PathSuffix(base[Len(base)]))
    ELSE base, UrlQuery(url)), PathJoin(HTML_DIR, StripHostPrefix(url)))

\* dest.relative_to(HTML_DIR) followed by str(): the path text below HTML_DIR
RECURSIVE PathText(_)
PathText(path) ==
  Strict(LAMBDA p :
    IF p = <<>> THEN <<>>
    ELSE IF Len(p) = 1 THEN p[1]
    ELSE p[1] \o <<"/">> \o PathText(Tail(p)), path)

RelativeToHtmlDir(p) == PathText(SubSeq(p, Len(HTML_DIR) + 1, Len(p)))

\* _abs_url(base, link); None is the empty string (both fail "if not abs_u")
_abs_url(base_url, href) ==
  Strict(LAMBDA base : Strict(LAMBDA link :
    IF link = <<>> THEN <<>>
    ELSE IF StartsWith(link, <<"http:", "/", "/">>) \/ StartsWith(link, <<"https:", "/", "/">>)
    THEN link
    ELSE IF StartsWith(link, <<"/", "/">>) THEN <<"https:">> \o link
    ELSE IF StartsWith(link, <<"/">>) THEN SITE_DOMAIN \o link
    ELSE IF EndsWith(base, <<"/">>) THEN base \o link
    ELSE RSplitHead(base) \o <<"/">> \o link, href), base_url)


\* ------------------------------------------------------------------------
\* The portal: the pages the server holds and the responses it can give
\* ------------------------------------------------------------------------
U_index == PAGES_PREFIX \o <<"index", ".html">>
U_intro == PAGES_PREFIX \o <<"tm", "/", "intro", ".html">>
U_sub == PAGES_PREFIX \o <<"tm", "/", "sub", ".html">>
U_root == PAGES_PREFIX
U_other == PAGES_PREFIX \o <<"other", "/", "x", ".html">>
U_css == SITE_DOMAIN \o <<"/", "static", "/", "site", ".css">>
U_clash == SITE_DOMAIN \o <<"/", "tm", "/", "intro", ".html">>
U_ext == <<"https:", "/", "/", "example", ".com", "/", "pages", "/", "foo", ".html">>
\* a second manual, under /pages/guide/
U_guide == PAGES_PREFIX \o <<"guide", "/", "start", ".html">>
U_ga == PAGES_PREFIX \o <<"guide", "/", "a", ".html">>
U_gb == PAGES_PREFIX \o <<"guide", "/", "b", ".html">>
U_gc == PAGES_PREFIX \o <<"guide", "/", "c", ".html">>
U_logo == PAGES_PREFIX \o <<"guide", "/", "logo", ".png">>
\* a script on another host, whose name begins with the portal's
U_evil == <<"https:", "/", "/", "bid3.afry", ".com", ".evil", "/", "x", ".js">>

Node(tag, val) == [tag |-> tag, val |-> val]

\* resp.text of a 200 response: the element references of the page, in
\* document order (tag, href/src value; for a style block the url(...) text)
SiteDoc(url) ==
  CASE url = U_index -> << Node("a", <<"index", ".html">>),
                           Node("a", <<"/", "pages", "/">>) >>
    [] url = U_intro -> << Node("a", <<"sub", ".html">>),
                           Node("link", U_css),
                           Node("a", <<"sub", ".html">>) >>
    [] url = U_sub   -> << Node("a", <<"intro", ".html">>),
                           Node("a", <<"/", "pages", "/", "other", "/", "x", ".html">>),
                           Node("a", U_ext),
                           Node("script", <<"/", "tm", "/", "intro", ".html">>),
                           Node("style", U_css) >>
    [] url = U_guide -> << Node("a", <<"a", ".html">>),
                           Node("a", <<"b", ".html">>) >>
    [] url = U_ga    -> << Node("a", <<"c", ".html">>),
                           Node("link", U_css),
                           Node("img", <<"/", "pages", "/", "guide", "/", "logo", ".png">>) >>
    [] url = U_gb    -> << Node("a", <<"c", ".html">>),
                           Node("script", U_evil) >>
    [] url = U_gc    -> << Node("a", <<"/", "pages", "/", "guide", "/", "a", ".html">>),
                           Node("link", <<"/", "static", "/", "site", ".css">>) >>
    [] OTHER -> << >>

KnownUrls == {U_root, U_index, U_intro, U_sub, U_other, U_css, U_clash,
              U_guide, U_ga, U_gb, U_gc, U_logo, U_evil}

\* status codes a GET can end with; 0 stands for session.get raising
\* (network error), the others for a final response with that status
NetworkError == 0

\* what the server answers when nothing goes wrong
NaturalStatus(url) == IF url \in KnownUrls THEN 200 ELSE 404

\* the outcomes of one GET of url when f requests of the run have already
\* gone wrong: any status until the run's fault budget is used up
ServerStatuses(url, f, budget) ==
  IF f < budget THEN {NetworkError, 200, 204, 304, 404} ELSE {NaturalStatus(url)}

IsFault(url, st) == st # NaturalStatus(url)

\* Response.raise_for_status() raises exactly for 4xx and 5xx
RaisesForStatus(st) == st >= 400 /\ st < 600

Is2xx(st) == st >= 200 /\ st < 300

\* resp.text: only a 200 response carries the page
ResponseText(url, st) == IF st = 200 THEN SiteDoc(url) ELSE << >>

\* ------------------------------------------------------------------------
\* Filesystem: fs maps the resolved path of each regular file to its
\* content, dirs is the set of existing directories
\* ------------------------------------------------------------------------
Prefixes(p) == { SubSeq(p, 1, n) : n \in 0..Len(p) }

MkdirExclusive(d, files, dir) ==
  IF dir \in d \/ \E a \in Prefixes(dir) : a \in DOMAIN files
  THEN [raised |-> TRUE, dirs |-> d]
  ELSE [raised |-> FALSE, dirs |-> d \cup Prefixes(dir)]

\* Path.mkdir(parents=True, exist_ok=True)
Mkdir(d, files, dir) ==
  IF \E a \in Prefixes(dir) : a \in DOMAIN files
  THEN [raised |-> TRUE, dirs |-> d]
  ELSE [raised |-> FALSE, dirs |-> d \cup Prefixes(dir)]

\* Path.write_text / Path.write_bytes raise when the path is a directory
WriteRaises(d, path) == path \in d


\* ------------------------------------------------------------------------
\* Bounds of the model
\* ------------------------------------------------------------------------
\* longest start-URL manifest
MaxManifest == 2

\* page GETs one crawl_directory call may issue before the model stops it
MaxFetches == 8

\* requests of one run that may end other than the server would normally answer
MaxFaults == 3

\* start URLs a manifest can list
StartCandidates == {U_index, U_intro, U_sub, U_ext}

\* ------------------------------------------------------------------------
\* State
\* ------------------------------------------------------------------------
VARIABLES
  manifest,   \* scrape_from: the list returned by load_start_urls
  mi,         \* scrape_from: index of the next start URL of the for loop
  total,      \* scrape_from: total
  pc,         \* position: "scrape", "loop", "rewrite", "done", "raised"
  prefixes,   \* crawl_directory: prefixes
  to_visit,   \* crawl_directory: to_visit
  seen,       \* crawl_directory: seen
  saved,      \* crawl_directory: saved
  u,          \* crawl_directory: u, the URL being processed
  resp,       \* crawl_directory: outcome of the last session.get(u), -1 when none
  html,       \* crawl_directory: html
  soup,       \* rewrite_links_and_save: the parsed tree being rewritten
  work,       \* rewrite_links_and_save: node indices in processing order
  ri,         \* rewrite_links_and_save: position in work
  attempt,    \* download_resource: attempt
  aresp,      \* download_resource: status of the last resp, -1 when none
  fs,         \* regular files under the filesystem root
  dirs,       \* directories
  crawlNo,    \* history: number of crawl_directory calls started
  fetchLog,   \* history: URLs page-fetched by the current crawl, in order
  savedLog,   \* history: pages written by the run, in order
  writers,    \* history: for each written path, the URLs written to it
  faults,     \* environment: requests of the run that have gone wrong
  statusLog,  \* history: outcome of each page GET of fetchLog, in order
  crawlLog,   \* history: start URL and returned count of each crawl_directory call
  dl,         \* history: the download_resource call in progress or just ended
  murl,       \* mapper call: the url argument
  mres,       \* mapper call: the value returned, or the error raised
  mscope,     \* mapper call: the value allowed_scope(murl) returned
  murl2,      \* mapper call: a second url, equal to murl up to its query string
  mres2,      \* mapper call: the value returned for murl2
  mfile,      \* scrape_from: the manifest file handed to load_start_urls
  vsite,      \* validate_local_site: the .html files under root and their hrefs
  vtodo,      \* validate_local_site: files rglob has still to yield
  broken,     \* validate_local_site: broken
  run1,       \* history: what the first of two runs left, "none" during the first
  graph,      \* browser scraper: the a-element hrefs of each page of the portal
  manual_urls,     \* browser scraper: the start URLs of manual_urls.json, in order
  downloaded_urls, \* browser scraper: self.downloaded_urls
  stack,      \* browser scraper: the download_page_recursive calls in progress
  navigated,  \* history: URLs driver.get was called on
  renav       \* history: URLs driver.get was called on more than once

vars == << manifest, mi, total, pc, prefixes, to_visit, seen, saved, u, resp,
           html, soup, work, ri, attempt, aresp, fs, dirs, crawlNo, fetchLog,
           savedLog, writers, faults, statusLog, crawlLog, dl,
           murl, mres, mscope, murl2, mres2, mfile, vsite, vtodo, broken,
           run1, graph, manual_urls, downloaded_urls, stack, navigated, renav >>

scrapeVars == << manifest, mi, total >>
crawlVars == << prefixes, to_visit, seen, saved >>
pageVars == << u, resp, html >>
rewriteVars == << soup, work, ri, attempt, aresp >>
diskVars == << fs, dirs, writers >>
\* what the crawl never touches: the manifest file and the state of the
\* stand-alone calls of the mappers and of the link checker
browserVars == << graph, manual_urls, downloaded_urls, stack, navigated, renav >>
mapVars == << murl, mres, mscope, murl2, mres2, mfile, vsite, vtodo, broken,
              run1, browserVars >>
histVars == << statusLog, crawlLog, dl >>

NoStatus == -1

NoResult == [raised |-> FALSE, path |-> << >>]

\* no download_resource call in view: url is the URL the call was made for,
\* log holds the status of each GET of the call, out is "running", "returned"
\* or "raised", wrote tells whether dest.write_bytes ran, again whether the
\* run had already written this URL's bytes when the call began
NoDownload == [url |-> << >>, log |-> << >>, out |-> "none", wrote |-> FALSE,
               again |-> FALSE]

\* no earlier run
NoRun == [n |-> 0, fs |-> << >>, savedLog |-> << >>, pc |-> "none"]

\* the browser scraper has not been constructed
IdleBrowser ==
  /\ graph = << >>
  /\ manual_urls = << >>
  /\ downloaded_urls = {}
  /\ stack = << >>
  /\ navigated = {}
  /\ renav = {}

\* ------------------------------------------------------------------------
\* load_start_urls: the manifest file and the JSON value it holds
\* ------------------------------------------------------------------------
JList(items) == [t |-> "list", items |-> items]
JStr(str) == [t |-> "str", s |-> str]
JNum == [t |-> "num"]
\* a JSON object: its members in file order, each a key and a value; a key
\* is a name and a number, ("section", 2) standing for the string "section2"
JDict(entries) == [t |-> "dict", entries |-> entries]
Key(name, no) == [name |-> name, no |-> no]
Member(key, val) == [key |-> key, val |-> val]
UrlsKey == Key("urls", 0)

MissingFile == [exists |-> FALSE, parses |-> FALSE, data |-> JNum]
GarbageFile == [exists |-> TRUE, parses |-> FALSE, data |-> JNum]
JsonFile(data) == [exists |-> TRUE, parses |-> TRUE, data |-> data]

\* the shape {"urls": [...]}
UrlsFile(urls) == JsonFile(JDict(<< Member(UrlsKey, JList(urls)) >>))

\* urls.extend(v) for every member whose value is a list
RECURSIVE FlattenLists(_)
FlattenLists(entries) ==
  IF entries = << >> THEN << >>
  ELSE (IF Head(entries).val.t = "list" THEN Head(entries).val.items ELSE << >>)
         \o FlattenLists(Tail(entries))

\* load_start_urls(manuals_json): the value returned, whatever its type, or
\* raised = TRUE for FileNotFoundError, JSONDecodeError and the
\* AttributeError of data.values() on a value that is no dict
load_start_urls(file) ==
  IF ~file.exists \/ ~file.parses THEN [raised |-> TRUE, value |-> JNum]
  ELSE IF file.data.t = "dict" /\ \E i \in 1..Len(file.data.entries) : file.data.entries[i].key = UrlsKey
  THEN [raised |-> FALSE,
        value |-> file.data.entries[CHOOSE i \in 1..Len(file.data.entries) :
                                      file.data.entries[i].key = UrlsKey].val]
  ELSE IF file.data.t # "dict" THEN [raised |-> TRUE, value |-> JNum]
  ELSE [raised |-> FALSE, value |-> JList(FlattenLists(file.data.entries))]

\* what "for url in <value>" of scrape_from iterates over: the items of a
\* list, the characters of a str (one element per token here, standing for
\* the token's characters, each a string shorter than PAGES_PREFIX), the keys
\* of a dict (each a name without "/"); a number raises TypeError
Iterate(value) ==
  CASE value.t = "list" -> [raised |-> FALSE, urls |-> value.items]
    [] value.t = "str"  -> [raised |-> FALSE, urls |-> [i \in 1..Len(value.s) |-> << value.s[i] >>]]
    [] value.t = "dict" -> [raised |-> FALSE,
                            urls |-> [i \in 1..Len(value.entries) |-> << value.entries[i].key.name >>]]
    [] OTHER -> [raised |-> TRUE, urls |-> << >>]

\* ------------------------------------------------------------------------
\* crawl_directory
\* ------------------------------------------------------------------------
\* the prefixes set built from start_url
ScopePrefixes(start_url) ==
  LET base_dir == RSplitHead(start_url) \o <<"/">>
      alt == RSplitHead(start_url) \o <<"/">> \o RemoveHtml(RSplitTail(start_url)) \o <<"/">>
  IN  IF EndsWith(start_url, <<".html">>) THEN {base_dir, alt} ELSE {base_dir}

InPrefixesAny(abs_u, pfx) == TRUE

\* any(abs_u.startswith(p) for p in prefixes)
InPrefixes(abs_u, pfx) == \E p \in pfx : StartsWith(abs_u, p)

SkipVisitedNever(x, s) == FALSE

\* the re-visit guard "if u in seen: continue"
SkipVisited(x, s) == x \in s

MarkSeenForget(s, x) == s

\* seen.add(u)
MarkSeen(s, x) == s \cup {x}

EnqueueFirst(q, new) == new \o q

\* to_visit.append(abs_u), for each new link in document order
Enqueue(q, new) == q \o new

LinkOfAbsoluteOnly(url, node) ==
  IF node.tag = "a" /\ HasScheme(node.val) THEN node.val ELSE << >>

\* abs_u of the link loop: _abs_url(u, href) for an a element
LinkOf(url, node) ==
  IF node.tag = "a" THEN _abs_url(url, node.val) ELSE << >>

\* URLs appended to to_visit by the link loop over the fetched html
RECURSIVE NewLinks(_, _, _, _)
NewLinks(url, doc, s, pfx) ==
  Strict(LAMBDA nodes :
    IF nodes = << >> THEN << >>
    ELSE Strict(LAMBDA abs_u :
           IF abs_u # << >> /\ allowed_scope(abs_u) /\ InPrefixes(abs_u, pfx) /\ abs_u \notin s
           THEN << abs_u >> ELSE << >>,
           LinkOf(url, Head(nodes)))
         \o NewLinks(url, Tail(nodes), s, pfx), doc)

\* ------------------------------------------------------------------------
\* rewrite_links_and_save
\* ------------------------------------------------------------------------
\* node indices in the order the function visits them: a, link, script, img
\* elements (attr_tags order), then the style blocks
TagIndices(nodes, tag) ==
  SelectSeq([i \in 1..Len(nodes) |-> i], LAMBDA i : nodes[i].tag = tag)

WorkOrder(nodes) ==
  TagIndices(nodes, "a") \o TagIndices(nodes, "link") \o TagIndices(nodes, "script")
    \o TagIndices(nodes, "img") \o TagIndices(nodes, "style")

is_asset(node) == node.tag \in {"link", "script", "img"}

\* abs_u of a reference: resolved against the page for elements, against
\* itself for a url(...) of a style block (repl calls _abs_url(base=url, link=url))
AbsOf(url, node) ==
  IF node.tag = "style" THEN _abs_url(node.val, node.val) ELSE _abs_url(url, node.val)

\* abs_u.startswith(DOMAIN)
SameSite(abs_u) == StartsWith(abs_u, SITE_DOMAIN)

\* the reference is handed to download_resource
NeedsDownload(url, node) ==
  Strict(LAMBDA abs_u :
    /\ abs_u # << >>
    /\ SameSite(abs_u)
    /\ \/ node.tag = "style"
       \/ is_asset(node) /\ ~StartsWith(abs_u, PAGES_PREFIX), AbsOf(url, node))

\* "./" + local for an in-scope target
LocalRef(abs_u) == <<".", "/">> \o StripPagesPrefix(abs_u)

\* "./" + str(rel) for a downloaded asset
AssetRef(dest) == <<".", "/">> \o RelativeToHtmlDir(dest)

RewriteLocalNodeAsWritten(url, node) ==
  Strict(LAMBDA abs_u :
    IF node.tag # "style" /\ abs_u # << >> /\ StartsWith(abs_u, PAGES_PREFIX)
    THEN [node EXCEPT !.val = IF HasScheme(@) \/ Head(@) = "/" THEN LocalRef(abs_u)
                               ELSE <<".", "/">> \o @]
    ELSE node, AbsOf(url, node))

\* a reference that is rewritten without any download
RewriteLocalNode(url, node) ==
  Strict(LAMBDA abs_u :
    IF node.tag # "style" /\ abs_u # << >> /\ StartsWith(abs_u, PAGES_PREFIX)
    THEN [node EXCEPT !.val = LocalRef(abs_u)]
    ELSE node, AbsOf(url, node))


\* ------------------------------------------------------------------------
\* Initial state: scrape_from has loaded the manifest and made the session
\* ------------------------------------------------------------------------
\* the manifests of the model: up to MaxManifest start URLs, each listed once
Manifests ==
  { m \in UNION { [1..n -> StartCandidates] : n \in 0..MaxManifest } :
      \A i, j \in 1..Len(m) : m[i] = m[j] => i = j }

Init ==
  /\ manifest \in Manifests
  /\ mi = 1
  /\ total = 0
  /\ pc = "scrape"
  /\ prefixes = {}
  /\ to_visit = << >>
  /\ seen = {}
  /\ saved = 0
  /\ u = << >>
  /\ resp = NoStatus
  /\ html = << >>
  /\ soup = << >>
  /\ work = << >>
  /\ ri = 1
  /\ attempt = 0
  /\ aresp = NoStatus
  /\ fs = << >>
  /\ dirs = Prefixes(BASE_PATH)
  /\ crawlNo = 0
  /\ fetchLog = << >>
  /\ savedLog = << >>
  /\ writers = << >>
  /\ faults = 0
  /\ statusLog = << >>
  /\ crawlLog = << >>
  /\ dl = NoDownload
  /\ murl = << >>
  /\ mres = NoResult
  /\ mscope = FALSE
  /\ murl2 = << >>
  /\ mres2 = NoResult
  /\ mfile = UrlsFile(manifest)
  /\ vsite = << >>
  /\ vtodo = {}
  /\ broken = << >>
  /\ run1 = NoRun
  /\ IdleBrowser

\* ------------------------------------------------------------------------
\* scrape_from
\* ------------------------------------------------------------------------
\* one turn of "for url in load_start_urls(...)": an out-of-scope URL is
\* passed over, an in-scope one enters crawl_directory up to its while loop
NoCount == -1

ScrapeNext ==
  /\ UNCHANGED mapVars
  /\ pc = "scrape"
  /\ mi <= Len(manifest)
  /\ mi' = mi + 1
  /\ IF allowed_scope(manifest[mi])
     THEN /\ pc' = "loop"
          /\ prefixes' = ScopePrefixes(manifest[mi])
          /\ to_visit' = << manifest[mi] >>
          /\ seen' = {}
          /\ saved' = 0
          /\ crawlNo' = crawlNo + 1
          /\ fetchLog' = << >>
          /\ statusLog' = << >>
          /\ crawlLog' = Append(crawlLog, [start |-> manifest[mi], ret |-> NoCount])
          /\ u' = << >>
          /\ resp' = NoStatus
          /\ html' = << >>
     ELSE UNCHANGED << pc, crawlVars, crawlNo, fetchLog, statusLog, crawlLog, pageVars >>
  /\ UNCHANGED << manifest, total, rewriteVars, diskVars, savedLog, faults, dl >>

\* the for loop is exhausted: return total
ScrapeReturn ==
  /\ UNCHANGED mapVars
  /\ pc = "scrape"
  /\ mi > Len(manifest)
  /\ pc' = "done"
  /\ UNCHANGED << scrapeVars, crawlVars, pageVars, rewriteVars, diskVars,
                  crawlNo, fetchLog, savedLog, faults, histVars >>

\* ------------------------------------------------------------------------
\* crawl_directory: the while loop
\* ------------------------------------------------------------------------
AccumulateLast(sum, n) == n

\* total += crawl_directory(url, session=session)
Accumulate(sum, n) == sum + n

\* to_visit is empty: return saved; scrape_from adds it to total
CrawlReturn ==
  /\ UNCHANGED mapVars
  /\ pc = "loop"
  /\ to_visit = << >>
  /\ total' = Accumulate(total, saved)
  /\ crawlLog' = [crawlLog EXCEPT ![Len(crawlLog)].ret = saved]
  /\ pc' = "scrape"
  /\ resp' = NoStatus
  /\ UNCHANGED << manifest, mi, crawlVars, u, html, rewriteVars, diskVars,
                  crawlNo, fetchLog, savedLog, faults, statusLog, dl >>

\* u = to_visit.pop(0) with u in seen: continue
CrawlSkip ==
  /\ UNCHANGED mapVars
  /\ pc = "loop"
  /\ to_visit # << >>
  /\ SkipVisited(Head(to_visit), seen)
  /\ to_visit' = Tail(to_visit)
  /\ resp' = NoStatus
  /\ UNCHANGED << scrapeVars, pc, prefixes, seen, saved, u, html, rewriteVars,
                  diskVars, crawlNo, fetchLog, savedLog, faults, histVars >>

\* u = to_visit.pop(0), seen.add(u), session.get(u), raise_for_status():
\* an exception goes back to the loop head; otherwise rewrite_links_and_save
\* starts on resp.text
PageGet ==
  /\ UNCHANGED mapVars
  /\ pc = "loop"
  /\ to_visit # << >>
  /\ ~SkipVisited(Head(to_visit), seen)
  /\ Len(fetchLog) < MaxFetches
  /\ \E st \in ServerStatuses(Head(to_visit), faults, MaxFaults) :
       /\ faults' = IF IsFault(Head(to_visit), st) THEN faults + 1 ELSE faults
       /\ to_visit' = Tail(to_visit)
       /\ seen' = MarkSeen(seen, Head(to_visit))
       /\ fetchLog' = Append(fetchLog, Head(to_visit))
       /\ statusLog' = Append(statusLog, st)
       /\ u' = Head(to_visit)
       /\ IF st = NetworkError \/ RaisesForStatus(st)
          THEN /\ pc' = "loop"
               /\ resp' = st
               /\ html' = << >>
               /\ UNCHANGED << soup, work >>
          ELSE /\ pc' = "rewrite"
               /\ resp' = st
               /\ html' = ResponseText(Head(to_visit), st)
               /\ soup' = html'
               /\ work' = WorkOrder(html')
  /\ ri' = 1
  /\ attempt' = 0
  /\ aresp' = NoStatus
  /\ dl' = NoDownload
  /\ UNCHANGED << scrapeVars, prefixes, saved, diskVars, crawlNo, savedLog, crawlLog >>


\* ------------------------------------------------------------------------
\* rewrite_links_and_save: one reference at a time
\* ------------------------------------------------------------------------
\* range(3) of download_resource
Attempts == 3

\* url's bytes have been written by the run
Written(w, url) == \E p \in DOMAIN w : url \in w[p]

AddWriter(w, path, url) ==
  (path :> ((IF path \in DOMAIN w THEN w[path] ELSE {}) \cup {url})) @@ w

\* a reference that needs no download: rewritten in place or left alone
RewriteLocal ==
  /\ UNCHANGED mapVars
  /\ pc = "rewrite"
  /\ ri <= Len(work)
  /\ ~NeedsDownload(u, soup[work[ri]])
  /\ soup' = [soup EXCEPT ![work[ri]] = RewriteLocalNode(u, @)]
  /\ ri' = ri + 1
  /\ aresp' = NoStatus
  /\ dl' = NoDownload
  /\ UNCHANGED << scrapeVars, pc, crawlVars, pageVars, work, attempt,
                  diskVars, crawlNo, fetchLog, savedLog, faults, statusLog, crawlLog >>

\* the reference being processed and where download_resource is to put it
CurAbs == AbsOf(u, soup[work[ri]])

CurDest == _local_for_url(CurAbs)

\* dest.parent.mkdir(parents=True, exist_ok=True), run before the first attempt
DestMkdir ==
  IF attempt = 0 THEN Mkdir(dirs, fs, Parent(Resolve(CurDest)))
  ELSE [raised |-> FALSE, dirs |-> dirs]

\* the state one session.get of download_resource leads to when it ends with
\* status st (NoStatus: the mkdir raised and no request was made), with all
\* the code that runs up to the next request: the write on status 200,
\* raise_for_status() after the last attempt, the caller's except clause and
\* the rewriting of the reference
AssetStep(st) ==
  Strict(LAMBDA abs_u : Strict(LAMBDA dest : Strict(LAMBDA file : Strict(LAMBDA mk :
    LET log == IF st = NoStatus THEN << >>
               ELSE (IF attempt = 0 THEN << >> ELSE dl.log) \o << st >>
        cur == [soup |-> soup, ri |-> ri, attempt |-> attempt, pc |-> pc,
                fs |-> fs, dirs |-> mk.dirs, writers |-> writers,
                dl |-> [url |-> abs_u, log |-> log, out |-> "running", wrote |-> FALSE,
                        again |-> IF attempt = 0 THEN Written(writers, abs_u)
                                  ELSE dl.again]]
        \* the exception is caught: the reference stays as it is
        caught == [cur EXCEPT !.ri = ri + 1, !.attempt = 0, !.dl.out = "raised"]
        \* download_resource returned: dest.relative_to(HTML_DIR) raises,
        \* outside the try, when dest is not below HTML_DIR
        returned == IF StartsWith(dest, HTML_DIR)
                    THEN [cur EXCEPT !.soup[work[ri]].val = AssetRef(dest),
                                     !.ri = ri + 1, !.attempt = 0,
                                     !.dl.out = "returned"]
                    ELSE [cur EXCEPT !.pc = "raised", !.dl.out = "returned"]
    IN  IF st = NoStatus \/ st = NetworkError THEN caught
        ELSE IF st = 200
        THEN IF WriteRaises(mk.dirs, file) THEN caught
             ELSE [returned EXCEPT
                     !.fs = (file :> [kind |-> "asset", url |-> abs_u, body |-> << >>]) @@ fs,
                     !.writers = AddWriter(writers, file, abs_u),
                     !.dl.wrote = TRUE]
        ELSE IF attempt < Attempts - 1 THEN [cur EXCEPT !.attempt = attempt + 1]
        ELSE IF RaisesForStatus(st) THEN caught
        ELSE returned,
    DestMkdir), Resolve(dest)), CurDest), CurAbs)

AssetGet ==
  /\ UNCHANGED mapVars
  /\ pc = "rewrite"
  /\ ri <= Len(work)
  /\ NeedsDownload(u, soup[work[ri]])
  /\ \E st \in (IF DestMkdir.raised THEN {NoStatus}
                ELSE ServerStatuses(CurAbs, faults, MaxFaults)) :
       /\ aresp' = st
       /\ faults' = IF st # NoStatus /\ IsFault(CurAbs, st) THEN faults + 1 ELSE faults
       /\ \E nxt \in {AssetStep(st)} :
            /\ soup' = nxt.soup
            /\ ri' = nxt.ri
            /\ attempt' = nxt.attempt
            /\ pc' = nxt.pc
            /\ fs' = nxt.fs
            /\ dirs' = nxt.dirs
            /\ writers' = nxt.writers
            /\ dl' = nxt.dl
  /\ UNCHANGED << scrapeVars, crawlVars, pageVars, work, crawlNo, fetchLog, savedLog,
                  statusLog, crawlLog >>

\* the state the end of rewrite_links_and_save leads to: the page is written
\* at sanitize_local_path(url); back in crawl_directory it is counted and its
\* in-scope links are appended.  An exception here is caught by nobody and
\* ends scrape_from.
SaveStep ==
  Strict(LAMBDA sp : Strict(LAMBDA out_path : Strict(LAMBDA mk :
    LET cur == [pc |-> "raised", dirs |-> dirs, fs |-> fs, writers |-> writers,
                savedLog |-> savedLog, saved |-> saved, to_visit |-> to_visit]
    IN  IF sp.raised \/ mk.raised THEN cur
        ELSE IF WriteRaises(mk.dirs, out_path) THEN [cur EXCEPT !.dirs = mk.dirs]
        ELSE [pc |-> "loop",
              dirs |-> mk.dirs,
              fs |-> (out_path :> [kind |-> "page", url |-> u, body |-> soup]) @@ fs,
              writers |-> AddWriter(writers, out_path, u),
              savedLog |-> Append(savedLog, [url |-> u, crawl |-> crawlNo]),
              saved |-> saved + 1,
              to_visit |-> Enqueue(to_visit, NewLinks(u, html, seen, prefixes))],
    Mkdir(dirs, fs, Parent(out_path))), Resolve(sp.path)), sanitize_local_path(u))

SavePage ==
  /\ UNCHANGED mapVars
  /\ pc = "rewrite"
  /\ ri > Len(work)
  /\ \E nxt \in {SaveStep} :
       /\ pc' = nxt.pc
       /\ dirs' = nxt.dirs
       /\ fs' = nxt.fs
       /\ writers' = nxt.writers
       /\ savedLog' = nxt.savedLog
       /\ saved' = nxt.saved
       /\ to_visit' = nxt.to_visit
  /\ aresp' = NoStatus
  /\ dl' = NoDownload
  /\ UNCHANGED << scrapeVars, prefixes, seen, pageVars, soup, work, ri, attempt,
                  crawlNo, fetchLog, faults, statusLog, crawlLog >>

Next ==
  \/ ScrapeNext
  \/ ScrapeReturn
  \/ CrawlReturn
  \/ CrawlSkip
  \/ PageGet
  \/ RewriteLocal
  \/ AssetGet
  \/ SavePage

Spec == Init /\ [][Next]_vars

\* the program is one thread that runs until it returns or raises
FairSpec == Spec /\ WF_vars(Next)

TypeOK ==
  /\ pc \in {"scrape", "loop", "rewrite", "done", "raised", "call", "scoped",
            "returned", "call_local", "returned_local", "load", "config_error",
            "validate", "validated", "call_prefixes", "returned_prefixes",
            "browse", "quit"}
  /\ mi \in 1..(Len(manifest) + 1)
  /\ attempt \in 0..(Attempts - 1)
  /\ saved \in 0..MaxFetches


\* ------------------------------------------------------------------------
\* The mappers on their own: a call of allowed_scope, then one of
\* sanitize_local_path, on a URL drawn from a bounded set of URLs
\* ------------------------------------------------------------------------
\* longest remainder, in tokens, of a URL after its prefix
MaxRem == 3

RemTokens == {"/", "..", "tm", "x", ".html"}

MapPrefixes ==
  { PAGES_PREFIX,
    SITE_DOMAIN \o <<"/">>,
    <<"http:", "/", "/", "bid3.afry", ".com", "/", "pages", "/">>,
    <<"https:", "/", "/", "example", ".com", "/", "pages", "/">> }

MapUrls ==
  { pre \o rem : pre \in MapPrefixes,
                 rem \in UNION { [1..n -> RemTokens] : n \in 0..MaxRem } }

InitMap ==
  /\ manifest = << >>
  /\ mi = 1
  /\ total = 0
  /\ pc = "call"
  /\ prefixes = {}
  /\ to_visit = << >>
  /\ seen = {}
  /\ saved = 0
  /\ u = << >>
  /\ resp = NoStatus
  /\ html = << >>
  /\ soup = << >>
  /\ work = << >>
  /\ ri = 1
  /\ attempt = 0
  /\ aresp = NoStatus
  /\ fs = << >>
  /\ dirs = Prefixes(BASE_PATH)
  /\ crawlNo = 0
  /\ fetchLog = << >>
  /\ savedLog = << >>
  /\ writers = << >>
  /\ faults = 0
  /\ statusLog = << >>
  /\ crawlLog = << >>
  /\ dl = NoDownload
  /\ murl \in MapUrls
  /\ mres = NoResult
  /\ mscope = FALSE
  /\ murl2 = << >>
  /\ mres2 = NoResult
  /\ mfile = UrlsFile(<< >>)
  /\ vsite = << >>
  /\ vtodo = {}
  /\ broken = << >>
  /\ run1 = NoRun
  /\ IdleBrowser

CallAllowedScope ==
  /\ pc = "call"
  /\ mscope' = allowed_scope(murl)
  /\ pc' = "scoped"
  /\ UNCHANGED << scrapeVars, crawlVars, pageVars, rewriteVars, diskVars,
                  crawlNo, fetchLog, savedLog, faults, histVars,
                  murl, mres, murl2, mres2, mfile, vsite, vtodo, broken,
                  run1, browserVars >>

CallSanitize ==
  /\ pc = "scoped"
  /\ mres' = sanitize_local_path(murl)
  /\ pc' = "returned"
  /\ UNCHANGED << scrapeVars, crawlVars, pageVars, rewriteVars, diskVars,
                  crawlNo, fetchLog, savedLog, faults, histVars,
                  murl, mscope, murl2, mres2, mfile, vsite, vtodo, broken,
                  run1, browserVars >>

NextMap ==
  \/ CallAllowedScope
  \/ CallSanitize

SpecMap == InitMap /\ [][NextMap]_vars

\* ------------------------------------------------------------------------
\* _local_for_url on its own: two calls, on URLs that are equal up to their
\* query strings
\* ------------------------------------------------------------------------
IdleCrawl ==
  /\ manifest = << >>
  /\ mi = 1
  /\ total = 0
  /\ prefixes = {}
  /\ to_visit = << >>
  /\ seen = {}
  /\ saved = 0
  /\ u = << >>
  /\ resp = NoStatus
  /\ html = << >>
  /\ soup = << >>
  /\ work = << >>
  /\ ri = 1
  /\ attempt = 0
  /\ aresp = NoStatus
  /\ fs = << >>
  /\ dirs = Prefixes(BASE_PATH)
  /\ crawlNo = 0
  /\ fetchLog = << >>
  /\ savedLog = << >>
  /\ writers = << >>
  /\ faults = 0
  /\ statusLog = << >>
  /\ crawlLog = << >>
  /\ dl = NoDownload
  /\ run1 = NoRun

Queries == {Q_v1, Q_v2, Q_v1slash, Q_collideA, Q_collideB}

\* "" or "?" + query
QueryParts == { << >> } \cup { <<"?">> \o q : q \in Queries }

Fragments == { << >>, <<"#", "top">> }

LocalBases == {U_css, U_clash, SITE_DOMAIN \o <<"/", "lib", ".min", ".js">>}

InitLocal ==
  /\ IdleCrawl
  /\ IdleBrowser
  /\ pc = "call_local"
  /\ \E b \in LocalBases, f \in Fragments, q1 \in QueryParts, q2 \in QueryParts :
       /\ murl = b \o q1 \o f
       /\ murl2 = b \o q2 \o f
  /\ mres = NoResult
  /\ mres2 = NoResult
  /\ mscope = FALSE
  /\ mfile = UrlsFile(<< >>)
  /\ vsite = << >>
  /\ vtodo = {}
  /\ broken = << >>

CallLocal ==
  /\ pc = "call_local"
  /\ mres' = [raised |-> FALSE, path |-> _local_for_url(murl)]
  /\ mres2' = [raised |-> FALSE, path |-> _local_for_url(murl2)]
  /\ pc' = "returned_local"
  /\ UNCHANGED << scrapeVars, crawlVars, pageVars, rewriteVars, diskVars,
                  crawlNo, fetchLog, savedLog, faults, histVars,
                  murl, murl2, mscope, mfile, vsite, vtodo, broken,
                  run1, browserVars >>

NextLocal ==
  \/ CallLocal

SpecLocal == InitLocal /\ [][NextLocal]_vars

\* ------------------------------------------------------------------------
\* scrape_from from its first line: the manifest file is any of the files
\* below, well-formed or not
\* ------------------------------------------------------------------------
\* the shape {"section": [...], ...}, one section for each URL
SectionsFile(urls) ==
  JsonFile(JDict([i \in 1..Len(urls) |-> Member(Key("section", i), JList(<< urls[i] >>))]))

WellFormedFiles ==
  { SectionsFile(m) : m \in Manifests } \cup { UrlsFile(m) : m \in { n \in Manifests : Len(n) <= 1 } }

MalformedFiles ==
  { MissingFile,
    GarbageFile,
    JsonFile(JNum),
    JsonFile(JStr(U_index)),
    JsonFile(JList(<< U_index >>)),
    JsonFile(JDict(<< Member(UrlsKey, JNum) >>)),
    JsonFile(JDict(<< Member(UrlsKey, JStr(U_index)) >>)),
    JsonFile(JDict(<< Member(Key("manuals", 0), JStr(U_index)) >>)),
    JsonFile(JDict(<< Member(Key("manuals", 0), JNum), Member(Key("tm", 0), JList(<< U_intro >>)) >>)) }

InitLoad ==
  /\ IdleCrawl
  /\ IdleBrowser
  /\ pc = "load"
  /\ mfile \in WellFormedFiles \cup MalformedFiles
  /\ murl = << >>
  /\ mres = NoResult
  /\ mscope = FALSE
  /\ murl2 = << >>
  /\ mres2 = NoResult
  /\ vsite = << >>
  /\ vtodo = {}
  /\ broken = << >>

\* session = _make_session_with_cookies(), total = 0 and the evaluation of
\* load_start_urls(manuals_json) as the iterable of the for loop
LoadManifest ==
  /\ pc = "load"
  /\ \E r \in { load_start_urls(mfile) } :
       \E it \in { Iterate(r.value) } :
         IF r.raised \/ it.raised
         THEN pc' = "config_error" /\ UNCHANGED manifest
         ELSE pc' = "scrape" /\ manifest' = it.urls
  /\ UNCHANGED << mi, total, crawlVars, pageVars, rewriteVars, diskVars,
                  crawlNo, fetchLog, savedLog, faults, histVars, mapVars >>

NextLoad ==
  \/ LoadManifest
  \/ Next

SpecLoad == InitLoad /\ [][NextLoad]_vars

\* ------------------------------------------------------------------------
\* validate_local_site(root = HTML_DIR) on a directory tree that holds the
\* .html files of vsite, each with the href values of its a elements
\* ------------------------------------------------------------------------
\* most a elements of a page
MaxLinks == 2

P_a == HTML_DIR \o << <<"a", ".html">> >>
P_b == HTML_DIR \o << <<"tm">>, <<"b", ".html">> >>

SitePages == {P_a, P_b}

H_rel == <<"b", ".html">>
H_up == <<"..", "/", "a", ".html">>
H_protorel == <<"/", "/", "example", ".com", "/", "x", ".html">>
H_httpname == <<"httpdocs", ".html">>

Hrefs == {H_rel, H_up, U_ext, H_protorel, H_httpname, << >>}

LinkSeqs == UNION { [1..n -> Hrefs] : n \in 0..MaxLinks }

\* tokens whose text begins with the characters "http"
HttpTokens == {"http:", "https:", "httpdocs"}

\* href.startswith("http")
StartsWithHttp(href) == href # << >> /\ href[1] \in HttpTokens

\* Path.exists(): a file of the site, or a directory above one, or root
PathExists(site, path) ==
  \/ path \in DOMAIN site
  \/ path \in Prefixes(HTML_DIR)
  \/ \E f \in DOMAIN site : path \in Prefixes(Parent(f))

\* the entries the inner loop appends for the page at path
RECURSIVE BrokenIn(_, _, _)
BrokenIn(site, path, hrefs) ==
  IF hrefs = << >> THEN << >>
  ELSE (IF Head(hrefs) = << >> \/ StartsWithHttp(Head(hrefs)) THEN << >>
        ELSE IF ~PathExists(site, LinkTarget(path, Head(hrefs)))
        THEN << [page |-> path, href |-> Head(hrefs)] >>
        ELSE << >>)
       \o BrokenIn(site, path, Tail(hrefs))

InitValidate ==
  /\ IdleCrawl
  /\ IdleBrowser
  /\ pc = "validate"
  /\ \E S \in SUBSET SitePages : vsite \in [S -> LinkSeqs]
  /\ vtodo = DOMAIN vsite
  /\ broken = << >>
  /\ murl = << >>
  /\ mres = NoResult
  /\ mscope = FALSE
  /\ murl2 = << >>
  /\ mres2 = NoResult
  /\ mfile = UrlsFile(<< >>)

\* one turn of "for html_path in root.rglob('*.html')", with its inner loop;
\* rglob yields the files in an order the code does not fix
ValidatePage ==
  /\ pc = "validate"
  /\ \E p \in vtodo :
       /\ broken' = broken \o BrokenIn(vsite, p, vsite[p])
       /\ vtodo' = vtodo \ {p}
  /\ UNCHANGED << pc, scrapeVars, crawlVars, pageVars, rewriteVars, diskVars,
                  crawlNo, fetchLog, savedLog, faults, histVars,
                  murl, mres, mscope, murl2, mres2, mfile, vsite,
                  run1, browserVars >>

\* return broken
ValidateReturn ==
  /\ pc = "validate"
  /\ vtodo = {}
  /\ pc' = "validated"
  /\ UNCHANGED << scrapeVars, crawlVars, pageVars, rewriteVars, diskVars,
                  crawlNo, fetchLog, savedLog, faults, histVars, mapVars >>

NextValidate ==
  \/ ValidatePage
  \/ ValidateReturn

SpecValidate == InitValidate /\ [][NextValidate]_vars


\* ------------------------------------------------------------------------
\* scrape_from run twice over the same output directory, against a portal
\* that answers every request the same way both times
\* ------------------------------------------------------------------------
\* scrape_from has loaded the manifest m; f requests have gone wrong so far
RunStart(m, f) ==
  /\ manifest = m
  /\ mi = 1
  /\ total = 0
  /\ pc = "scrape"
  /\ prefixes = {}
  /\ to_visit = << >>
  /\ seen = {}
  /\ saved = 0
  /\ u = << >>
  /\ resp = NoStatus
  /\ html = << >>
  /\ soup = << >>
  /\ work = << >>
  /\ ri = 1
  /\ attempt = 0
  /\ aresp = NoStatus
  /\ fs = << >>
  /\ dirs = Prefixes(BASE_PATH)
  /\ crawlNo = 0
  /\ fetchLog = << >>
  /\ savedLog = << >>
  /\ writers = << >>
  /\ faults = f
  /\ statusLog = << >>
  /\ crawlLog = << >>
  /\ dl = NoDownload
  /\ murl = << >>
  /\ mres = NoResult
  /\ mscope = FALSE
  /\ murl2 = << >>
  /\ mres2 = NoResult
  /\ mfile = UrlsFile(manifest)
  /\ vsite = << >>
  /\ vtodo = {}
  /\ broken = << >>
  /\ run1 = NoRun
  /\ IdleBrowser

InitRerun == \E m \in Manifests : RunStart(m, MaxFaults)

\* the first run has returned or raised; scrape_from is called again with
\* the same manifest, on the files and directories the first run left
Rerun ==
  /\ pc \in {"done", "raised"}
  /\ run1 = NoRun
  /\ run1' = [n |-> 1, fs |-> fs, savedLog |-> savedLog, pc |-> pc]
  /\ mi' = 1
  /\ total' = 0
  /\ pc' = "scrape"
  /\ prefixes' = {}
  /\ to_visit' = << >>
  /\ seen' = {}
  /\ saved' = 0
  /\ u' = << >>
  /\ resp' = NoStatus
  /\ html' = << >>
  /\ soup' = << >>
  /\ work' = << >>
  /\ ri' = 1
  /\ attempt' = 0
  /\ aresp' = NoStatus
  /\ crawlNo' = 0
  /\ fetchLog' = << >>
  /\ savedLog' = << >>
  /\ writers' = << >>
  /\ statusLog' = << >>
  /\ crawlLog' = << >>
  /\ dl' = NoDownload
  /\ UNCHANGED << manifest, fs, dirs, faults, murl, mres, mscope, murl2, mres2,
                  mfile, vsite, vtodo, broken, browserVars >>

NextRerun ==
  \/ Rerun
  \/ Next

SpecRerun == InitRerun /\ [][NextRerun]_vars


\* ------------------------------------------------------------------------
\* The prefixes of crawl_directory on their own: the first lines of a call
\* on a start URL drawn from a bounded set of in-scope URLs
\* ------------------------------------------------------------------------
\* most tokens a resource name has after its first
MaxName == 3

NameTokens == {".html", "-v2", ".bak"}

StartDirs == { PAGES_PREFIX, PAGES_PREFIX \o <<"tm", "/">> }

StartUrls ==
  { d \o <<"a">> \o n : d \in StartDirs,
                         n \in UNION { [1..k -> NameTokens] : k \in 0..MaxName } }

InitPrefixes ==
  /\ IdleCrawl
  /\ IdleBrowser
  /\ pc = "call_prefixes"
  /\ murl \in StartUrls
  /\ mres = NoResult
  /\ mscope = FALSE
  /\ murl2 = << >>
  /\ mres2 = NoResult
  /\ mfile = UrlsFile(<< >>)
  /\ vsite = << >>
  /\ vtodo = {}
  /\ broken = << >>

\* crawl_directory(murl) up to "to_visit = [start_url]"
CallPrefixes ==
  /\ pc = "call_prefixes"
  /\ allowed_scope(murl)
  /\ prefixes' = ScopePrefixes(murl)
  /\ to_visit' = << murl >>
  /\ pc' = "returned_prefixes"
  /\ UNCHANGED << scrapeVars, seen, saved, pageVars, rewriteVars, diskVars,
                  crawlNo, fetchLog, savedLog, faults, histVars, mapVars >>

NextPrefixes ==
  \/ CallPrefixes

SpecPrefixes == InitPrefixes /\ [][NextPrefixes]_vars


\* ------------------------------------------------------------------------
\* scrape_from on a manifest that names the guide manual
\* ------------------------------------------------------------------------
InitGuide == RunStart(<< U_guide >>, 0)

SpecGuide == InitGuide /\ [][Next]_vars


\* ------------------------------------------------------------------------
\* The browser-automation scraper (src/scraper.py): scrape_manuals after the
\* login, on a portal whose manual pages link to one another in any way
\* ------------------------------------------------------------------------
UM_DIR == PAGES_PREFIX \o <<"um", "/">>
B_a == UM_DIR \o <<"a", ".html">>
B_b == UM_DIR \o <<"b", ".html">>
B_c == UM_DIR \o <<"c", ".html">>
\* hrefs every page carries and _get_subpage_links drops
B_pdf == UM_DIR \o <<"d", ".pdf">>
B_out == PAGES_PREFIX \o <<"tm", "/", "x", ".html">>

BrowserPages == {B_a, B_b, B_c}

\* most links to manual pages on one page
MaxOut == 2

\* most download_page_recursive calls nested in one another: the
\* interpreter's recursion limit
MaxDepth == 3

Graphs == [BrowserPages -> { S \in SUBSET BrowserPages : Cardinality(S) <= MaxOut }]

\* urljoin(url, href) of each a element of driver.page_source
PageHrefs(g, url) == g[url] \cup {B_pdf, B_out}

\* the links _get_subpage_links keeps: same parent prefix, ending in .html
SubpageLinks(g, url) ==
  { h \in PageHrefs(g, url) :
      StartsWith(h, RSplitHead(url) \o <<"/">>) /\ EndsWith(h, <<".html">>) }

\* list(set(links)): the links once each, in an order the code does not fix
Orders(S) ==
  { q \in [1..Cardinality(S) -> S] : \A i, j \in 1..Cardinality(S) : q[i] = q[j] => i = j }

Frame(url, todo) == [url |-> url, todo |-> todo]

InitBrowser ==
  /\ IdleCrawl
  /\ pc = "browse"
  /\ graph \in Graphs
  /\ manual_urls \in { << B_a >>, << B_a, B_b >> }
  /\ downloaded_urls = {}
  /\ stack = << Frame(<< >>, manual_urls) >>
  /\ navigated = {}
  /\ renav = {}
  /\ murl = << >>
  /\ mres = NoResult
  /\ mscope = FALSE
  /\ murl2 = << >>
  /\ mres2 = NoResult
  /\ mfile = UrlsFile(<< >>)
  /\ vsite = << >>
  /\ vtodo = {}
  /\ broken = << >>

\* the call in progress and the URL its loop has come to
TopFrame == stack[Len(stack)]

NextUrl == Head(TopFrame.todo)

\* the loop of the call in progress moves on to its next URL
LoopOn(st) == [st EXCEPT ![Len(st)].todo = Tail(@)]

crawlIdle == << scrapeVars, crawlVars, pageVars, rewriteVars, diskVars, crawlNo,
               fetchLog, savedLog, faults, histVars, murl, mres, mscope, murl2,
               mres2, mfile, vsite, vtodo, broken, run1 >>

\* "if subpage_url not in self.downloaded_urls" fails, or the call returns
\* at once on "if url in self.downloaded_urls"
BrowserSkip ==
  /\ pc = "browse"
  /\ TopFrame.todo # << >>
  /\ NextUrl \in downloaded_urls
  /\ stack' = LoopOn(stack)
  /\ UNCHANGED << pc, graph, manual_urls, downloaded_urls, navigated, renav, crawlIdle >>

\* download_page_recursive(NextUrl) up to its for loop: driver.get, the save
\* and the link extraction.  driver.get may raise, and so return from the
\* call; _save_page_as_mhtml may return False
BrowserVisit ==
  /\ pc = "browse"
  /\ TopFrame.todo # << >>
  /\ NextUrl \notin downloaded_urls
  /\ Len(stack) <= MaxDepth
  /\ navigated' = navigated \cup {NextUrl}
  /\ renav' = IF NextUrl \in navigated THEN renav \cup {NextUrl} ELSE renav
  /\ \E outcome \in {"get_raised", "saved", "not_saved"} :
       /\ downloaded_urls' = IF outcome = "saved" THEN downloaded_urls \cup {NextUrl}
                             ELSE downloaded_urls
       /\ IF outcome = "get_raised" THEN stack' = LoopOn(stack)
          ELSE \E links \in Orders(SubpageLinks(graph, NextUrl)) :
                 stack' = Append(stack, Frame(NextUrl, links))
  /\ UNCHANGED << pc, graph, manual_urls, crawlIdle >>

\* the call would nest deeper than the interpreter allows: RecursionError,
\* caught by the except clause of the calling download_page_recursive,
\* which returns
BrowserOverflow ==
  /\ pc = "browse"
  /\ TopFrame.todo # << >>
  /\ NextUrl \notin downloaded_urls
  /\ Len(stack) > MaxDepth
  /\ stack' = LoopOn(SubSeq(stack, 1, Len(stack) - 1))
  /\ UNCHANGED << pc, graph, manual_urls, downloaded_urls, navigated, renav, crawlIdle >>

\* the for loop of a download_page_recursive call is exhausted: return
BrowserReturn ==
  /\ pc = "browse"
  /\ TopFrame.todo = << >>
  /\ Len(stack) > 1
  /\ stack' = LoopOn(SubSeq(stack, 1, Len(stack) - 1))
  /\ UNCHANGED << pc, graph, manual_urls, downloaded_urls, navigated, renav, crawlIdle >>

\* both loops of scrape_manuals are exhausted: driver.quit()
BrowserQuit ==
  /\ pc = "browse"
  /\ TopFrame.todo = << >>
  /\ Len(stack) = 1
  /\ pc' = "quit"
  /\ UNCHANGED << browserVars, crawlIdle >>

NextBrowser ==
  \/ BrowserSkip
  \/ BrowserVisit
  \/ BrowserOverflow
  \/ BrowserReturn
  \/ BrowserQuit

SpecBrowser == InitBrowser /\ [][NextBrowser]_vars


\* ------------------------------------------------------------------------
\* Properties
\* ------------------------------------------------------------------------
Range(q) == { q[i] : i \in 1..Len(q) }

Occurrences(q, x) == Cardinality({ i \in 1..Len(q) : q[i] = x })

InCrawl == pc \in {"loop", "rewrite"}

\* the start URL of the crawl_directory call in progress
StartUrl == manifest[mi - 1]

SavedInCrawl(x) == [url |-> x, crawl |-> crawlNo] \in Range(savedLog)

\* C1: link consistency.  For every page P on disk and every hyperlink of P
\* whose resolved target Q is in scope, the rewritten href, resolved against
\* the directory of P's file, is the file sanitize_local_path(Q) names.
C1_LinkConsistency ==
  \A path \in DOMAIN fs :
    fs[path].kind = "page" =>
      \A i \in 1..Len(fs[path].body) :
        LET P == fs[path].url
            Q == _abs_url(P, SiteDoc(P)[i].val)
        IN  (fs[path].body[i].tag = "a" /\ StartsWith(Q, PAGES_PREFIX)) =>
              LinkTarget(path, fs[path].body[i].val) = Resolve(sanitize_local_path(Q).path)

\* C2: scope containment.  During a crawl, every URL fetched as a page, every
\* URL saved and every URL in the work queue starts with PAGES_PREFIX and
\* with a scope prefix derived from the start URL.
C2_ScopeContainment ==
  InCrawl =>
    \A x \in Range(fetchLog) \cup Range(to_visit) \cup { r.url : r \in { q \in Range(savedLog) : q.crawl = crawlNo } } :
      /\ StartsWith(x, PAGES_PREFIX)
      /\ \E p \in ScopePrefixes(StartUrl) : StartsWith(x, p)

\* C2 witness: the crawl of tm/intro.html has saved tm/sub.html, whose link
\* to other/x.html (in PAGES_PREFIX, outside the scope prefixes) was examined
C2_Witness ==
  /\ pc = "loop"
  /\ StartUrl = U_intro
  /\ SavedInCrawl(U_sub)
  /\ U_other \notin Range(to_visit)

\* C3: re-visit guard.  Within one crawl_directory call no URL is fetched
\* twice, and a URL is saved no more often than it was fetched.
C3_RevisitGuard ==
  \A x \in Range(fetchLog) :
    /\ Occurrences(fetchLog, x) <= 1
    /\ Occurrences(savedLog, [url |-> x, crawl |-> crawlNo]) <= Occurrences(fetchLog, x)

\* C3 witness: tm/sub.html was appended twice by tm/intro.html, fetched once,
\* and its second queue entry has been dequeued and passed over
C3_Witness ==
  /\ pc = "loop"
  /\ fetchLog = << U_intro, U_sub >>
  /\ saved = 2
  /\ to_visit = << >>

\* C4: termination.  Every crawl_directory call that has reached its loop
\* eventually empties the work queue and returns to scrape_from.
C4_CrawlReturns == (pc = "loop") ~> (pc = "scrape")

\* the weaker fact that holds: the run always stops, by return or by exception
RunStops == <>(pc \in {"done", "raised"})

\* C5: a URL whose page fetch ended with a non-2xx status or a network error
\* is not saved: no file is written for it and it is not counted.
C5_FailedFetchSkipsPage ==
  (InCrawl /\ resp # NoStatus /\ ~Is2xx(resp)) =>
    /\ ~SavedInCrawl(u)
    /\ \A path \in DOMAIN fs : fs[path].url # u

\* C6: when the download of an asset has failed (its last response is not a
\* 2xx one, or the request raised), the reference is as in the source markup.
C6_FailedAssetKeepsReference ==
  (pc = "rewrite" /\ attempt = 0 /\ ri > 1 /\ aresp # NoStatus /\ ~Is2xx(aresp)) =>
    soup[work[ri - 1]] = html[work[ri - 1]]

\* C7: no failure met while processing one URL ends the run.
C7_NoFailurePropagates == pc # "raised"

\* C8 as claimed: no URL is saved twice during one scrape_from run.
C8_SavedOncePerRun ==
  \A i, j \in 1..Len(savedLog) : savedLog[i].url = savedLog[j].url => i = j

\* C8 as amended: no URL is saved twice by the same crawl_directory call, so
\* a URL is saved at most once per start URL crawled.
C8_SavedOncePerCrawl ==
  /\ \A i, j \in 1..Len(savedLog) : savedLog[i] = savedLog[j] => i = j
  /\ \A x \in { r.url : r \in Range(savedLog) } :
       Cardinality({ i \in 1..Len(savedLog) : savedLog[i].url = x }) <= crawlNo

\* C8 witness: the second crawl has saved a page the first crawl saved too
C8_Witness ==
  \E i, j \in 1..Len(savedLog) :
    /\ savedLog[i].url = savedLog[j].url
    /\ savedLog[i].crawl = 1
    /\ savedLog[j].crawl = 2

\* C9: no two distinct URLs are written to the same local file.
C9_NoCollisions ==
  \A path \in DOMAIN writers : Cardinality(writers[path]) <= 1

\* C10: for a URL with the content-path prefix, sanitize_local_path returns
\* a path, and that path lies under HTML_DIR.
C10_SanitizeUnderRoot ==
  (pc = "returned" /\ StartsWith(murl, PAGES_PREFIX)) =>
    /\ ~mres.raised
    /\ IsUnder(mres.path, HTML_DIR)

\* C11: two URLs equal up to their query strings map to different paths
\* when the query strings differ, and two calls on the same URL return the
\* same path.
C11_QueryDistinct ==
  pc = "returned_local" =>
    /\ UrlQuery(murl) # UrlQuery(murl2) => mres.path # mres2.path
    /\ murl = murl2 => mres = mres2

\* C12: for a URL that does not start with PAGES_PREFIX allowed_scope
\* returns false and sanitize_local_path raises without returning a path; for
\* a URL that starts with it allowed_scope returns true.
C12_ScopeError ==
  pc = "returned" =>
    /\ mscope <=> StartsWith(murl, PAGES_PREFIX)
    /\ ~StartsWith(murl, PAGES_PREFIX) => (mres.raised /\ mres.path = << >>)

\* C12 witness: a URL of the portal's host and content path under the http
\* scheme, which the regular expression of the mapper would accept, was
\* rejected by both functions
C12_Witness ==
  /\ pc = "returned"
  /\ StartsWith(murl, <<"http:", "/", "/", "bid3.afry", ".com", "/", "pages", "/">>)
  /\ ~mscope
  /\ mres.raised

\* C13: bounded retry.  One download_resource call issues at most three GETs,
\* and a response with a 2xx status is the last of the call and is written
\* to dest.
C13_BoundedRetry ==
  /\ Len(dl.log) <= Attempts
  /\ \A i \in 1..Len(dl.log) :
       Is2xx(dl.log[i]) => (i = Len(dl.log) /\ dl.out = "returned" /\ dl.wrote)

\* C14: a download_resource call whose three attempts all ended with a
\* response of non-2xx status raises and writes nothing.
C14_FailureRaises ==
  (Len(dl.log) = Attempts /\ \A i \in 1..Attempts : dl.log[i] # NetworkError /\ ~Is2xx(dl.log[i]))
    => (dl.out = "raised" /\ ~dl.wrote)

\* C15: asset localization.  For every page on disk and every link, script
\* or img reference of it to a same-site asset outside the content path that
\* was downloaded and rewritten, the asset file is at _local_for_url(asset)
\* and the rewritten reference, resolved against the directory of the page's
\* file, names that file.
C15_AssetLocalized ==
  \A path \in DOMAIN fs :
    fs[path].kind = "page" =>
      \A i \in 1..Len(fs[path].body) :
        LET P == fs[path].url
            A == _abs_url(P, SiteDoc(P)[i].val)
            dest == Resolve(_local_for_url(A))
        IN  ( /\ is_asset(SiteDoc(P)[i])
              /\ SameSite(A)
              /\ ~StartsWith(A, PAGES_PREFIX)
              /\ fs[path].body[i].val # SiteDoc(P)[i].val
              /\ dest \in DOMAIN fs
              /\ fs[dest].kind = "asset"
              /\ fs[dest].url = A )
            => LinkTarget(path, fs[path].body[i].val) = dest

\* the crawl_directory call last started, and whether it has returned
LastCrawl == crawlLog[Len(crawlLog)]

CrawlReturned == crawlLog # << >> /\ LastCrawl.ret # NoCount

\* the outcome of the page GET of x in the crawl last started
StatusOf(x) == statusLog[CHOOSE k \in 1..Len(fetchLog) : fetchLog[k] = x]

FetchedOK(x) == x \in Range(fetchLog) /\ Is2xx(StatusOf(x))

\* the in-scope targets of the hyperlinks of x, when x was fetched
InScopeLinks(x) ==
  IF ~FetchedOK(x) THEN {}
  ELSE { t \in { _abs_url(x, n.val) : n \in { m \in Range(ResponseText(x, StatusOf(x))) : m.tag = "a" } } :
           /\ StartsWith(t, PAGES_PREFIX)
           /\ \E p \in ScopePrefixes(LastCrawl.start) : StartsWith(t, p) }

\* the URLs reachable from the start URL through in-scope links of fetched pages
RECURSIVE LinkClosure(_)
LinkClosure(S) ==
  LET N == S \cup UNION { InScopeLinks(x) : x \in S }
  IN  IF N = S THEN S ELSE LinkClosure(N)

\* C16: crawl completeness.  When crawl_directory has returned, every URL
\* reachable from the start URL through in-scope hyperlinks of fetched pages
\* has been fetched, and each one fetched with success has been counted and
\* written at its sanitize_local_path location.
C16_CrawlComplete ==
  CrawlReturned =>
    \A x \in LinkClosure({LastCrawl.start}) :
      /\ x \in Range(fetchLog)
      /\ FetchedOK(x) =>
           /\ SavedInCrawl(x)
           /\ Resolve(sanitize_local_path(x).path) \in DOMAIN writers
           /\ x \in writers[Resolve(sanitize_local_path(x).path)]

\* C16 witness: the crawl of tm/intro.html has returned; tm/sub.html, reached
\* only through the relative link of tm/intro.html, was fetched and saved
C16_Witness ==
  /\ CrawlReturned
  /\ LastCrawl.start = U_intro
  /\ LinkClosure({U_intro}) = {U_intro, U_sub}
  /\ SavedInCrawl(U_sub)

\* C17: saved count.  The value crawl_directory returns is the number of
\* distinct URLs it fetched with success (a 2xx response) and saved.
C17_SavedCount ==
  CrawlReturned =>
    LastCrawl.ret = Cardinality({ x \in Range(fetchLog) : FetchedOK(x) /\ SavedInCrawl(x) })

\* the sum of the counts the finished crawl_directory calls returned
RECURSIVE SumReturned(_)
SumReturned(log) ==
  IF log = << >> THEN 0
  ELSE (IF Head(log).ret = NoCount THEN 0 ELSE Head(log).ret) + SumReturned(Tail(log))

\* C18: scrape_from has called crawl_directory once, in manifest order, for
\* each in-scope start URL it has passed, has issued no request for an
\* out-of-scope start URL, holds in total the sum of the counts returned, and
\* returns only after the last start URL.
C18_OncePerStartUrl ==
  /\ [i \in 1..Len(crawlLog) |-> crawlLog[i].start]
       = SelectSeq(SubSeq(manifest, 1, mi - 1), LAMBDA x : StartsWith(x, PAGES_PREFIX))
  /\ total = SumReturned(crawlLog)
  /\ \A x \in Range(manifest) : ~StartsWith(x, PAGES_PREFIX) => x \notin Range(fetchLog)
  /\ pc = "done" => (mi = Len(manifest) + 1 /\ \A i \in 1..Len(crawlLog) : crawlLog[i].ret # NoCount)

\* C18 witness: scrape_from has returned 4 for a manifest of two in-scope
\* start URLs, each crawl having returned 2
C18_Witness ==
  /\ pc = "done"
  /\ Len(crawlLog) = 2
  /\ crawlLog[1].ret = 2
  /\ crawlLog[2].ret = 2
  /\ total = 4

\* C18 witness of the other case: an out-of-scope start URL was passed over
C18_SkipWitness ==
  /\ pc = "done"
  /\ manifest = << U_ext, U_intro >>
  /\ Len(crawlLog) = 1
  /\ total = 2

\* the manifest has one of the two accepted shapes: {"urls": [...]} or a
\* mapping of section names to lists
WellFormed(file) ==
  /\ file.exists
  /\ file.parses
  /\ file.data.t = "dict"
  /\ \A i \in 1..Len(file.data.entries) : file.data.entries[i].val.t = "list"

\* C19: fail fast on configuration.  With a missing or malformed manifest
\* scrape_from never gets past the loading of the manifest: it issues no
\* request, writes no file and returns no count.
C19_FailFast ==
  ~WellFormed(mfile) =>
    /\ pc \in {"load", "config_error"}
    /\ fetchLog = << >>
    /\ fs = << >>

\* an absolute (external) link: it names a host, with a scheme or without
ExternalLink(href) ==
  \/ StartsWith(href, <<"http:", "/", "/">>)
  \/ StartsWith(href, <<"https:", "/", "/">>)
  \/ StartsWith(href, <<"/", "/">>)

\* the hrefs of the page at path that are relative and name nothing that exists
ExpectedBroken(path) ==
  SelectSeq(vsite[path],
            LAMBDA h : ~ExternalLink(h) /\ ~PathExists(vsite, LinkTarget(path, h)))

\* C20: the list validate_local_site returns holds, for each page, one entry
\* for each of its relative hyperlinks that names no existing file, in page
\* order, and no other entry.
C20_BrokenLinksExact ==
  pc = "validated" =>
    /\ \A i \in 1..Len(broken) : broken[i].page \in DOMAIN vsite
    /\ \A p \in DOMAIN vsite :
         SelectSeq(broken, LAMBDA b : b.page = p)
           = [i \in 1..Len(ExpectedBroken(p)) |-> [page |-> p, href |-> ExpectedBroken(p)[i]]]

\* the file a saved page was written to
PageFile(url) == Resolve(sanitize_local_path(url).path)

\* C21: idempotent re-run.  When scrape_from is run a second time against a
\* portal that answers as it did the first time, the second run ends as the
\* first did, saves the same pages in the same order, and every saved page's
\* file holds the content it held after the first run.
C21_IdempotentRerun ==
  (run1.n = 1 /\ pc \in {"done", "raised"}) =>
    /\ pc = run1.pc
    /\ savedLog = run1.savedLog
    /\ \A i \in 1..Len(run1.savedLog) :
         /\ PageFile(run1.savedLog[i].url) \in DOMAIN fs
         /\ fs[PageFile(run1.savedLog[i].url)] = run1.fs[PageFile(run1.savedLog[i].url)]

\* a second run that has saved two pages and returned
C21_Witness ==
  /\ run1.n = 1
  /\ pc = "done"
  /\ Len(savedLog) >= 2

\* the resource name without its extension: what precedes its last "."
NameStem(name) ==
  IF name = << >> THEN << >> ELSE SubSeq(name, 1, Len(name) - 1)

\* C22: the ScopePrefix set of a crawl_directory run is the containing
\* directory of the start URL plus, when the start URL ends in ".html", the
\* sibling directory named after the resource without its extension.
C22_ScopePrefixesFromStart ==
  pc = "returned_prefixes" =>
    LET dir == RSplitHead(murl) \o <<"/">>
        name == RSplitTail(murl)
    IN  prefixes = IF EndsWith(murl, <<".html">>)
                   THEN {dir, dir \o NameStem(name) \o <<"/">>}
                   ELSE {dir}

\* the ScopePrefix set is left unchanged by every step of a crawl_directory
\* run after its first lines
PrefixesFixed ==
  [][(pc \in {"loop", "rewrite"} /\ pc' \in {"loop", "rewrite"}) => prefixes' = prefixes]_vars

\* while a crawl runs its ScopePrefix set is the one computed from its start URL
PrefixesOfStart ==
  InCrawl => prefixes = ScopePrefixes(StartUrl)

\* pages the current crawl can reach from its start URL through at most n
\* links of successfully fetched in-scope pages
RECURSIVE Within(_)
Within(n) ==
  IF n = 0 THEN {LastCrawl.start}
  ELSE Strict(LAMBDA near :
         near \cup UNION { InScopeLinks(x) : x \in { y \in near : FetchedOK(y) } },
         Within(n - 1))

\* link distance from the start URL
Distance(x) == CHOOSE n \in 0..MaxFetches : x \in Within(n) /\ \A k \in 0..(n - 1) : x \notin Within(k)

\* C23: breadth-first order.  Every fetched URL is at some link distance from
\* the start URL, and no URL is fetched before a URL at a smaller distance.
C23_BreadthFirst ==
  InCrawl =>
    /\ \A i \in 1..Len(fetchLog) : fetchLog[i] \in Within(MaxFetches)
    /\ \A i, j \in 1..Len(fetchLog) :
         i < j => Distance(fetchLog[i]) <= Distance(fetchLog[j])

\* pages at distance 0, 1, 1 and 2 have been fetched, in that order
C23_Witness ==
  /\ InCrawl
  /\ Len(fetchLog) = 4
  /\ Distance(fetchLog[2]) = 1
  /\ Distance(fetchLog[3]) = 1
  /\ Distance(fetchLog[4]) = 2

\* the file a rewritten reference names, taken from the output root
FileOfRef(ref) == Resolve(PathJoin(HTML_DIR, ref))

\* C24: a resource reference is localized only after its bytes are on disk.
\* While a page is rewritten, every link, script or img element whose
\* href/src has been replaced names a file that the run has written under
\* the output root.
C24_LocalizedAfterWrite ==
  pc = "rewrite" =>
    \A i \in 1..Len(soup) :
      (is_asset(html[i]) /\ soup[i].val # html[i].val) =>
        FileOfRef(soup[i].val) \in DOMAIN writers

\* the host of an absolute URL: what stands between "//" and the next "/"
UrlHost(url) ==
  IF ~HasScheme(url) THEN << >>
  ELSE IF FirstIndex(SubSeq(url, 4, Len(url)), "/") = 0 THEN SubSeq(url, 4, Len(url))
  ELSE SubSeq(url, 4, FirstIndex(SubSeq(url, 4, Len(url)), "/") + 2)

\* C25: same-site restriction on assets.  download_resource is called only
\* for URLs whose host is the portal's, and a link, script or img reference
\* to any other host keeps its value.
C25_SameSiteAssets ==
  /\ dl.out # "none" => UrlHost(dl.url) = UrlHost(SITE_DOMAIN)
  /\ pc = "rewrite" =>
       \A i \in 1..Len(soup) :
         (is_asset(html[i]) /\ UrlHost(AbsOf(u, html[i])) # UrlHost(SITE_DOMAIN)) =>
           soup[i] = html[i]

\* C26: asset deduplication.  download_resource sends no request for an
\* asset URL whose bytes the run has already written.
C26_NoRepeatedDownload ==
  (dl.out # "none" /\ dl.log # << >>) => ~dl.again

\* the element references of page url that differ from those of its source,
\* each with the absolute URL its source value stands for
RewrittenRefs(url, orig, cur) ==
  { [abs |-> AbsOf(url, orig[i]), ref |-> cur[i].val] :
      i \in { j \in 1..Len(cur) : orig[j].tag # "style" /\ cur[j].val # orig[j].val } }

\* the rewritten element references of the pages on disk and of the page
\* being rewritten
AllRewrittenRefs ==
  UNION { RewrittenRefs(fs[p].url, SiteDoc(fs[p].url), fs[p].body) :
            p \in { q \in DOMAIN fs : fs[q].kind = "page" } }
    \cup (IF pc = "rewrite" THEN RewrittenRefs(u, html, soup) ELSE {})

\* C27: stable rewriting.  Any two element references of the run that stand
\* for the same absolute URL and have been rewritten hold the same relative
\* reference, whichever pages they are in.
C27_StableRewriting ==
  \A r1, r2 \in AllRewrittenRefs : r1.abs = r2.abs => r1.ref = r2.ref

\* two pages on disk, in which the same URL was written in two ways, hold
\* rewritten references to it
C27_Witness ==
  \E p1, p2 \in DOMAIN fs :
    /\ fs[p1].kind = "page" /\ fs[p2].kind = "page"
    /\ \E i \in 1..Len(fs[p1].body), j \in 1..Len(fs[p2].body) :
         /\ SiteDoc(fs[p1].url)[i].val # SiteDoc(fs[p2].url)[j].val
         /\ SiteDoc(fs[p1].url)[i].tag = "link"
         /\ AbsOf(fs[p1].url, SiteDoc(fs[p1].url)[i]) = AbsOf(fs[p2].url, SiteDoc(fs[p2].url)[j])
         /\ fs[p1].body[i].val # SiteDoc(fs[p1].url)[i].val
         /\ fs[p2].body[j].val # SiteDoc(fs[p2].url)[j].val

\* C28: download_page_recursive navigates to each URL at most once in a
\* scrape_manuals run.
C28_NavigatedOnce ==
  renav = {}

====
